---- MODULE Spec2Model ----
(***************************************************************************)
(* Same Picture Posting Bot (main.py): the interval codec, the admin       *)
(* command handlers, the poster and the self-rescheduling timer chain.     *)
(*                                                                         *)
(* Strings that the code inspects (interval strings, channel names) are    *)
(* sequences of one-character strings: "10s" is <<"1","0","s">>.           *)
(***************************************************************************)
EXTENDS Integers, Sequences, FiniteSets, TLC

VARIABLES
    cfg,      \* the record stored in config.json
    now,      \* int(time.time())
    jobs,     \* application.job_queue: pending one-shot jobs, in run-time order
    cmd,      \* the command handler in flight (updates are handled one at a time)
    posts,    \* the post_scheduled_picture coroutines in flight
    files,    \* the picture paths for which os.path.exists is true
    sent,     \* number of photos the channel has received
    ev,       \* the reply that the last handler sent in the current second
    postLog,  \* the last log line of post_scheduled_picture
    sched,    \* the locals of the latest schedule_next_post execution
    updates,  \* number of command updates dispatched so far
    written,  \* the last_post_time that the latest successful post wrote
    codec     \* the latest parse_time_interval / format_time_interval call

vars == <<cfg, now, jobs, cmd, posts, files, sent, ev, postLog, sched, updates, written, codec>>
botVars == <<cfg, now, jobs, cmd, posts, files, sent, ev, postLog, sched, updates, written>>

(***************************************************************************)
(* Python values                                                           *)
(***************************************************************************)
\* json null / Python None for last_post_time
None == -1

\* parse_time_interval raised ValueError
ValueError == -1

Digit == <<"0", "1", "2", "3", "4", "5", "6", "7", "8", "9">>

IsDigit(c) == \E i \in 1..10 : Digit[i] = c

DigitVal(c) == (CHOOSE i \in 1..10 : Digit[i] = c) - 1

\* int(text) for a non-empty run of digits (leading zeros allowed)
RECURSIVE int(_)
int(text) ==
    IF text = <<>> THEN 0
    ELSE int(SubSeq(text, 1, Len(text) - 1)) * 10 + DigitVal(text[Len(text)])

\* f"{n}" for a non-negative integer
RECURSIVE str(_)
str(n) ==
    IF n < 10 THEN <<Digit[n + 1]>>
    ELSE str(n \div 10) \o <<Digit[(n % 10) + 1]>>

(***************************************************************************)
(* parse_time_interval                                                     *)
(***************************************************************************)
Units == <<"d", "h", "m", "s">>

\* (?:(\d+)U)? tried at position pos: the lengths k of a digit run at pos
\* that is followed by the unit letter
GroupLens(text, pos, unit) ==
    {k \in 1..Len(text) :
        /\ pos + k <= Len(text)
        /\ \A i \in pos..(pos + k - 1) : IsDigit(text[i])
        /\ text[pos + k] = unit}

\* re.match(pattern, text): the four groups (<<>> for a group that did not
\* take part), each optional group taken greedily from left to right
RECURSIVE MatchFrom(_, _, _)
MatchFrom(text, pos, u) ==
    IF u > 4 THEN <<>>
    ELSE LET lens == GroupLens(text, pos, Units[u])
         IN  IF lens = {}
             THEN <<<<>>>> \o MatchFrom(text, pos, u + 1)
             ELSE LET k == CHOOSE x \in lens : \A y \in lens : y <= x
                  IN  <<SubSeq(text, pos, pos + k - 1)>>
                          \o MatchFrom(text, pos + k + 1, u + 1)

NoGroups == << <<>>, <<>>, <<>>, <<>> >>

Consumed(groups, u) == IF groups[u] = <<>> THEN 0 ELSE Len(groups[u]) + 1

re_fullmatch(text) ==
    LET groups == MatchFrom(text, 1, 1)
    IN  IF Consumed(groups, 1) + Consumed(groups, 2) + Consumed(groups, 3)
               + Consumed(groups, 4) = Len(text)
        THEN groups
        ELSE NoGroups

re_match(text) == MatchFrom(text, 1, 1)

parse_time_interval_minutes(interval_str) ==
    IF interval_str = <<>> THEN 0
    ELSE LET groups == re_match(interval_str)
         IN  IF \A i \in 1..4 : groups[i] = <<>> THEN ValueError
             ELSE int(groups[1]) * 86400 + int(groups[2]) * 60
                      + int(groups[3]) * 60 + int(groups[4])

parse_time_interval(interval_str) ==
    IF interval_str = <<>> THEN 0
    ELSE LET groups == re_match(interval_str)
         IN  IF \A i \in 1..4 : groups[i] = <<>> THEN ValueError
             ELSE int(groups[1]) * 86400 + int(groups[2]) * 3600
                      + int(groups[3]) * 60 + int(groups[4])

(***************************************************************************)
(* format_time_interval                                                    *)
(***************************************************************************)
format_time_interval_empty(seconds) ==
    LET days == seconds \div 86400
        rem1 == seconds % 86400
        hours == rem1 \div 3600
        rem2 == rem1 % 3600
        minutes == rem2 \div 60
        secs == rem2 % 60
        r1 == IF days > 0 THEN str(days) \o <<"d">> ELSE <<>>
        r2 == IF hours > 0 THEN r1 \o str(hours) \o <<"h">> ELSE r1
        r3 == IF minutes > 0 THEN r2 \o str(minutes) \o <<"m">> ELSE r2
    IN  IF secs > 0 THEN r3 \o str(secs) \o <<"s">> ELSE r3

format_time_interval(seconds) ==
    LET days == seconds \div 86400
        rem1 == seconds % 86400
        hours == rem1 \div 3600
        rem2 == rem1 % 3600
        minutes == rem2 \div 60
        secs == rem2 % 60
        r1 == IF days > 0 THEN str(days) \o <<"d">> ELSE <<>>
        r2 == IF hours > 0 THEN r1 \o str(hours) \o <<"h">> ELSE r1
        r3 == IF minutes > 0 THEN r2 \o str(minutes) \o <<"m">> ELSE r2
    IN  IF secs > 0 \/ r3 = <<>> THEN r3 \o str(secs) \o <<"s">> ELSE r3

(***************************************************************************)
(* The bot: bounds and inputs                                              *)
(***************************************************************************)
\* the clock when main() starts, and how many seconds the model follows
Now0 == 20
Horizon == 4
\* how many post_scheduled_picture coroutines may be in flight at once
MaxInFlight == 2
\* how many commands the operator and strangers send
MaxCommands == 1

MaxTime == Now0 + Horizon

Users == {100, 200}

SeedPicture == <<"picture", 0, ".jpg">>

\* f"pictures/picture_{int(time.time())}.jpg"
PicturePath(t) == <<"pictures/picture_", t, ".jpg">>

\* last_post_time values a config.json may hold when main() starts: never
\* posted (null), the epoch, a post that is overdue for a 10 s interval
SeedLastPost == {None, 0, Now0 - 12}

\* post_interval and last_post_time of a hand-written config.json; nothing
\* checks post_interval when the file is loaded
SeedConfigs ==
    ({ <<"1", "0", "s">> } \X SeedLastPost)
        \cup ({ <<"1", "s">> } \X {None})

\* the same, for a post_interval that respects the floor of set_interval
GoodSeedConfigs == { <<"1", "0", "s">>, <<"1", "1", "s", "!">> } \X SeedLastPost

ChannelArgs == { <<>>, << <<"@", "b">> >>, << <<"b", "@">>, <<"@", "c">> >> }

IntervalArgs ==
    { <<>>, << <<"5", "s">> >>, << <<"1", "0", "s">> >>, << <<"x">> >> }

Unauthorized == "You are not authorized to use this bot."

Idle == [name |-> "idle", pc |-> "idle", config |-> <<>>, file_path |-> <<>>]

NoCall == [op |-> "none", in |-> <<0, 0, 0, 0>>, n |-> 0, s |-> <<>>, r |-> 0, s2 |-> <<>>]

NoEvent == [cmd |-> "none", user |-> 0, args |-> <<>>, reply |-> "none"]

NotScheduled ==
    [called |-> FALSE, now |-> 0, last_post_time |-> None, post_interval |-> <<>>,
     interval_seconds |-> 0, delay |-> 0, prev_post |-> "none"]

PostFailures == {"Picture not found", "Error posting scheduled picture"}

(***************************************************************************)
(* load_config / save_config: the whole record is read and written         *)
(***************************************************************************)
load_config == cfg

save_config(config) == cfg' = config

\* Python truthiness of config['last_post_time']: None and 0 are false
Truthy(value) == value # None /\ value # 0

(***************************************************************************)
(* schedule_next_post                                                      *)
(***************************************************************************)
\* job_queue.run_once(callback, timedelta(seconds=delay)) at time t: the queue
\* keeps its jobs in run-time order, equal run times in insertion order
run_once(queue, callback, t, delay) ==
    LET job == [callback |-> callback, at |-> t + delay]
        before == SelectSeq(queue, LAMBDA j : j.at <= job.at)
        after == SelectSeq(queue, LAMBDA j : j.at > job.at)
    IN  before \o <<job>> \o after

next_delay_now(config, interval_seconds, t) ==
    IF Truthy(config.last_post_time)
    THEN IF config.last_post_time + interval_seconds <= t
         THEN 1
         ELSE config.last_post_time + interval_seconds - t
    ELSE 1

next_delay_immediate(config, interval_seconds, t) ==
    IF Truthy(config.last_post_time)
    THEN IF config.last_post_time + interval_seconds <= t
         THEN 0
         ELSE config.last_post_time + interval_seconds - t
    ELSE interval_seconds

\* lines 295-307: the delay from the loaded record, the parsed interval and
\* now = int(time.time())
next_delay(config, interval_seconds, t) ==
    IF Truthy(config.last_post_time)
    THEN IF config.last_post_time + interval_seconds <= t
         THEN 1
         ELSE config.last_post_time + interval_seconds - t
    ELSE interval_seconds

\* schedule_next_post that arms the post job and no reschedule job
schedule_next_post_no_rearm(queue) ==
    LET config == load_config
        interval_seconds == parse_time_interval(config.post_interval)
    IN  IF interval_seconds = ValueError
        THEN /\ jobs' = queue
             /\ UNCHANGED sched
        ELSE LET delay == next_delay(config, interval_seconds, now)
             IN  /\ jobs' = run_once(queue, "post_scheduled_picture", now, delay)
                 /\ sched' = [called |-> TRUE, now |-> now,
                              last_post_time |-> config.last_post_time,
                              post_interval |-> config.post_interval,
                              interval_seconds |-> interval_seconds,
                              delay |-> delay, prev_post |-> postLog]

\* schedule_next_post that arms the reschedule job for delay, not delay + 1
schedule_next_post_same_delay(queue) ==
    LET config == load_config
        interval_seconds == parse_time_interval(config.post_interval)
    IN  IF interval_seconds = ValueError
        THEN /\ jobs' = queue
             /\ UNCHANGED sched
        ELSE LET delay == next_delay(config, interval_seconds, now)
             IN  /\ jobs' = run_once(run_once(queue, "post_scheduled_picture", now, delay),
                                     "schedule_next_post", now, delay)
                 /\ sched' = [called |-> TRUE, now |-> now,
                              last_post_time |-> config.last_post_time,
                              post_interval |-> config.post_interval,
                              interval_seconds |-> interval_seconds,
                              delay |-> delay, prev_post |-> postLog]

\* schedule_next_post(application), the job queue being `queue` when it runs
schedule_next_post(queue) ==
    LET config == load_config
        interval_seconds == parse_time_interval(config.post_interval)
    IN  IF interval_seconds = ValueError
        THEN /\ jobs' = queue
             /\ UNCHANGED sched
        ELSE LET delay == next_delay(config, interval_seconds, now)
             IN  /\ jobs' = run_once(run_once(queue, "post_scheduled_picture", now, delay),
                                     "schedule_next_post", now, delay + 1)
                 /\ sched' = [called |-> TRUE, now |-> now,
                              last_post_time |-> config.last_post_time,
                              post_interval |-> config.post_interval,
                              interval_seconds |-> interval_seconds,
                              delay |-> delay, prev_post |-> postLog]

\* main(): the handlers are registered and the first post is scheduled
Main ==
    /\ ~sched.called
    /\ jobs = <<>>
    /\ schedule_next_post(jobs)
    /\ UNCHANGED <<cfg, now, cmd, posts, files, sent, ev, postLog, updates, written, codec>>

\* RunScheduleJob with the reschedule job registered as a repeating job: it
\* stays in the queue after it has run
RunScheduleJob_repeating ==
    /\ jobs # <<>>
    /\ Head(jobs).at <= now
    /\ Head(jobs).callback = "schedule_next_post"
    /\ schedule_next_post(jobs)
    /\ UNCHANGED <<cfg, now, cmd, posts, files, sent, ev, postLog, updates, written, codec>>

\* the job queue runs the reschedule job
RunScheduleJob ==
    /\ jobs # <<>>
    /\ Head(jobs).at <= now
    /\ Head(jobs).callback = "schedule_next_post"
    /\ schedule_next_post(Tail(jobs))
    /\ UNCHANGED <<cfg, now, cmd, posts, files, sent, ev, postLog, updates, written, codec>>

(***************************************************************************)
(* post_scheduled_picture                                                  *)
(***************************************************************************)
Remove(seq, i) == SubSeq(seq, 1, i - 1) \o SubSeq(seq, i + 1, Len(seq))

\* the job queue runs the post job: lines 265-275, up to the await
RunPostJob ==
    /\ jobs # <<>>
    /\ Head(jobs).at <= now
    /\ Head(jobs).callback = "post_scheduled_picture"
    /\ Len(posts) < MaxInFlight
    /\ jobs' = Tail(jobs)
    /\ LET config == load_config
       IN  IF config.picture_path \notin files
           THEN /\ postLog' = "Picture not found"
                /\ UNCHANGED posts
           ELSE /\ posts' = Append(posts, [config |-> config, pc |-> "send_photo"])
                /\ UNCHANGED postLog
    /\ UNCHANGED <<cfg, now, cmd, files, sent, ev, sched, updates, written, codec>>

\* the channel receives the photo of scheduled post i
PostDelivered(i) ==
    /\ posts[i].pc = "send_photo"
    /\ sent' = sent + 1
    /\ posts' = [posts EXCEPT ![i].pc = "delivered"]
    /\ UNCHANGED <<cfg, now, jobs, cmd, files, ev, postLog, sched, updates, written, codec>>

PostSendRaises_mut(i) ==
    /\ posts[i].pc = "send_photo"
    /\ posts' = Remove(posts, i)
    /\ postLog' = "Error posting scheduled picture"
    /\ save_config([posts[i].config EXCEPT !.last_post_time = now])
    /\ UNCHANGED <<now, jobs, cmd, files, sent, ev, sched, updates, written, codec>>

\* send_photo raises: lines 285-286
PostSendRaises(i) ==
    /\ posts[i].pc = "send_photo"
    /\ posts' = Remove(posts, i)
    /\ postLog' = "Error posting scheduled picture"
    /\ UNCHANGED <<cfg, now, jobs, cmd, files, sent, ev, sched, updates, written, codec>>

\* PostRecord that loads the record again before it writes last_post_time
PostRecord_reload(i) ==
    /\ posts[i].pc = "delivered"
    /\ save_config([cfg EXCEPT !.last_post_time = now])
    /\ written' = now
    /\ posts' = Remove(posts, i)
    /\ postLog' = "Scheduled picture posted"
    /\ UNCHANGED <<now, jobs, cmd, files, sent, ev, sched, updates, codec>>

\* PostRecord that writes the run time of the post job, not the time of the write
PostRecord_job_time(i) ==
    /\ posts[i].pc = "delivered"
    /\ save_config([posts[i].config EXCEPT !.last_post_time = sched.now + sched.delay])
    /\ written' = sched.now + sched.delay
    /\ posts' = Remove(posts, i)
    /\ postLog' = "Scheduled picture posted"
    /\ UNCHANGED <<now, jobs, cmd, files, sent, ev, sched, updates, codec>>

\* PostRecord that does not wait for send_photo to return
PostRecord_early(i) ==
    /\ posts[i].pc \in {"send_photo", "delivered"}
    /\ save_config([posts[i].config EXCEPT !.last_post_time = now])
    /\ written' = now
    /\ posts' = Remove(posts, i)
    /\ postLog' = "Scheduled picture posted"
    /\ UNCHANGED <<now, jobs, cmd, files, sent, ev, sched, updates, codec>>

\* send_photo returns: lines 280-284
PostRecord(i) ==
    /\ posts[i].pc = "delivered"
    /\ save_config([posts[i].config EXCEPT !.last_post_time = now])
    /\ written' = now
    /\ posts' = Remove(posts, i)
    /\ postLog' = "Scheduled picture posted"
    /\ UNCHANGED <<now, jobs, cmd, files, sent, ev, sched, updates, codec>>

(***************************************************************************)
(* Command handlers.  The application handles one update at a time, so a   *)
(* handler runs only when no other handler is suspended.                   *)
(***************************************************************************)
Dispatch ==
    /\ sched.called
    /\ cmd = Idle
    /\ updates < MaxCommands
    /\ updates' = updates + 1

NotAdmin_mut(user, config) == FALSE

\* "Only respond to the admin": update.effective_user.id != config['admin_id']
NotAdmin(user, config) == user # config.admin_id

Reply(name, user, args, text) ==
    ev' = [cmd |-> name, user |-> user, args |-> args, reply |-> text]

\* start: lines 83-100
Start(user) ==
    /\ Dispatch
    /\ LET config == load_config
       IN  IF NotAdmin(user, config)
           THEN Reply("start", user, <<>>, Unauthorized)
           ELSE Reply("start", user, <<>>, "Welcome to the Same Picture Posting Bot!")
    /\ UNCHANGED <<cfg, now, jobs, cmd, posts, files, sent, postLog, sched, written, codec>>

\* status: lines 102-138
Status(user) ==
    /\ Dispatch
    /\ LET config == load_config
       IN  IF NotAdmin(user, config)
           THEN Reply("status", user, <<>>, Unauthorized)
           ELSE IF parse_time_interval(config.post_interval) = ValueError
                THEN Reply("status", user, <<>>, "ValueError")
                ELSE Reply("status", user, <<>>, "Current Bot Settings")
    /\ UNCHANGED <<cfg, now, jobs, cmd, posts, files, sent, postLog, sched, written, codec>>

ChannelRejected_mut(args) == args = <<>>

\* line 149: not context.args or not context.args[0].startswith('@')
ChannelRejected(args) == args = <<>> \/ args[1][1] # "@"

\* set_channel that also resets last_post_time for the new channel
SetChannel_reset(user, args) ==
    /\ Dispatch
    /\ LET config == load_config
       IN  IF NotAdmin(user, config)
           THEN /\ Reply("setchannel", user, args, Unauthorized)
                /\ UNCHANGED cfg
           ELSE IF ChannelRejected(args)
                THEN /\ Reply("setchannel", user, args,
                              "Please provide a valid channel name starting with @.")
                     /\ UNCHANGED cfg
                ELSE /\ save_config([config EXCEPT !.channel_name = args[1],
                                                 !.last_post_time = None])
                     /\ Reply("setchannel", user, args, "Channel set")
    /\ UNCHANGED <<now, jobs, cmd, posts, files, sent, postLog, sched, written, codec>>

\* set_channel: lines 140-160
SetChannel(user, args) ==
    /\ Dispatch
    /\ LET config == load_config
       IN  IF NotAdmin(user, config)
           THEN /\ Reply("setchannel", user, args, Unauthorized)
                /\ UNCHANGED cfg
           ELSE IF ChannelRejected(args)
                THEN /\ Reply("setchannel", user, args,
                              "Please provide a valid channel name starting with @.")
                     /\ UNCHANGED cfg
                ELSE /\ save_config([config EXCEPT !.channel_name = args[1]])
                     /\ Reply("setchannel", user, args, "Channel set")
    /\ UNCHANGED <<now, jobs, cmd, posts, files, sent, postLog, sched, written, codec>>

IntervalRejected_mut(seconds) == seconds < 1

\* line 186: the floor on an accepted interval
IntervalRejected(seconds) == seconds < 10

\* set_interval that cancels the pending jobs when it stores a new interval
SetInterval_cancel(user, args) ==
    /\ Dispatch
    /\ LET config == load_config
       IN  IF NotAdmin(user, config)
           THEN /\ Reply("setinterval", user, args, Unauthorized)
                /\ UNCHANGED cfg
           ELSE IF args = <<>>
                THEN /\ Reply("setinterval", user, args, "Please provide a time interval.")
                     /\ UNCHANGED cfg
                ELSE LET interval_str == args[1]
                         seconds == parse_time_interval(interval_str)
                     IN  IF seconds = ValueError
                         THEN /\ Reply("setinterval", user, args,
                                       "Invalid time interval format")
                              /\ UNCHANGED cfg
                         ELSE IF IntervalRejected(seconds)
                              THEN /\ Reply("setinterval", user, args,
                                            "Interval must be at least 10 seconds.")
                                   /\ UNCHANGED cfg
                              ELSE /\ save_config([config EXCEPT
                                                      !.post_interval = interval_str])
                                   /\ Reply("setinterval", user, args,
                                            "Posting interval set")
    /\ jobs' = IF cfg' # cfg THEN <<>> ELSE jobs
    /\ UNCHANGED <<now, cmd, posts, files, sent, postLog, sched, written, codec>>

\* set_interval: lines 162-197
SetInterval(user, args) ==
    /\ Dispatch
    /\ LET config == load_config
       IN  IF NotAdmin(user, config)
           THEN /\ Reply("setinterval", user, args, Unauthorized)
                /\ UNCHANGED cfg
           ELSE IF args = <<>>
                THEN /\ Reply("setinterval", user, args, "Please provide a time interval.")
                     /\ UNCHANGED cfg
                ELSE LET interval_str == args[1]
                         seconds == parse_time_interval(interval_str)
                     IN  IF seconds = ValueError
                         THEN /\ Reply("setinterval", user, args,
                                       "Invalid time interval format")
                              /\ UNCHANGED cfg
                         ELSE IF IntervalRejected(seconds)
                              THEN /\ Reply("setinterval", user, args,
                                            "Interval must be at least 10 seconds.")
                                   /\ UNCHANGED cfg
                              ELSE /\ save_config([config EXCEPT
                                                      !.post_interval = interval_str])
                                   /\ Reply("setinterval", user, args,
                                            "Posting interval set")
    /\ UNCHANGED <<now, jobs, cmd, posts, files, sent, postLog, sched, written, codec>>

\* set_picture up to its first await: lines 199-216 and 225-228
SetPicture(user, replyToPhoto) ==
    /\ Dispatch
    /\ LET config == load_config
       IN  IF NotAdmin(user, config)
           THEN /\ Reply("setpicture", user, <<>>, Unauthorized)
                /\ UNCHANGED cmd
           ELSE IF ~replyToPhoto
                THEN /\ Reply("setpicture", user, <<>>, "Please reply to a photo")
                     /\ UNCHANGED cmd
                ELSE /\ cmd' = [name |-> "setpicture", pc |-> "get_file",
                                config |-> config, file_path |-> <<>>]
                     /\ UNCHANGED ev
    /\ UNCHANGED <<cfg, now, jobs, posts, files, sent, postLog, sched, written, codec>>

\* get_file returns: line 217
SetPictureGotFile ==
    /\ cmd.name = "setpicture"
    /\ cmd.pc = "get_file"
    /\ cmd' = [cmd EXCEPT !.pc = "download_to_drive", !.file_path = PicturePath(now)]
    /\ UNCHANGED <<cfg, now, jobs, posts, files, sent, ev, postLog, sched, updates, written, codec>>

\* download_to_drive returns: lines 218-224
SetPictureSaved ==
    /\ cmd.name = "setpicture"
    /\ cmd.pc = "download_to_drive"
    /\ files' = files \cup {cmd.file_path}
    /\ save_config([cmd.config EXCEPT !.picture_path = cmd.file_path])
    /\ Reply("setpicture", cmd.config.admin_id, <<>>, "Picture set")
    /\ cmd' = Idle
    /\ UNCHANGED <<now, jobs, posts, sent, postLog, sched, updates, written, codec>>

\* get_file or download_to_drive raises: the handler ends without a save
SetPictureRaises ==
    /\ cmd.name = "setpicture"
    /\ Reply("setpicture", cmd.config.admin_id, <<>>, "exception")
    /\ cmd' = Idle
    /\ UNCHANGED <<cfg, now, jobs, posts, files, sent, postLog, sched, updates, written, codec>>

\* post_now up to its await: lines 230-253
PostNow(user) ==
    /\ Dispatch
    /\ LET config == load_config
       IN  IF NotAdmin(user, config)
           THEN /\ Reply("post", user, <<>>, Unauthorized)
                /\ UNCHANGED cmd
           ELSE IF config.picture_path \notin files
                THEN /\ Reply("post", user, <<>>, "Picture not found")
                     /\ UNCHANGED cmd
                ELSE /\ cmd' = [name |-> "post", pc |-> "send_photo",
                                config |-> config, file_path |-> <<>>]
                     /\ UNCHANGED ev
    /\ UNCHANGED <<cfg, now, jobs, posts, files, sent, postLog, sched, written, codec>>

\* the channel receives the photo of the manual post
PostNowDelivered ==
    /\ cmd.name = "post"
    /\ cmd.pc = "send_photo"
    /\ sent' = sent + 1
    /\ cmd' = [cmd EXCEPT !.pc = "delivered"]
    /\ UNCHANGED <<cfg, now, jobs, posts, files, ev, postLog, sched, updates, written, codec>>

\* send_photo raises: lines 260-261
PostNowRaises ==
    /\ cmd.name = "post"
    /\ cmd.pc = "send_photo"
    /\ Reply("post", cmd.config.admin_id, <<>>, "Error posting picture")
    /\ cmd' = Idle
    /\ UNCHANGED <<cfg, now, jobs, posts, files, sent, postLog, sched, updates, written, codec>>

\* send_photo returns: lines 255-259
PostNowRecord ==
    /\ cmd.name = "post"
    /\ cmd.pc = "delivered"
    /\ save_config([cmd.config EXCEPT !.last_post_time = now])
    /\ written' = now
    /\ Reply("post", cmd.config.admin_id, <<>>, "Picture posted successfully!")
    /\ cmd' = Idle
    /\ UNCHANGED <<now, jobs, posts, files, sent, postLog, sched, updates, codec>>

(***************************************************************************)
(* Time                                                                    *)
(***************************************************************************)
\* a second passes; the job queue runs a job when its run time comes
Tick ==
    /\ sched.called
    /\ now < MaxTime
    /\ jobs # <<>> => Head(jobs).at > now
    /\ now' = now + 1
    /\ ev' = NoEvent
    /\ UNCHANGED <<cfg, jobs, cmd, posts, files, sent, postLog, sched, updates, written, codec>>

(***************************************************************************)
(* Specifications                                                          *)
(***************************************************************************)
\* the state when main() starts: config.json as the operator wrote it
InitConfig(seeds) ==
    /\ \E seed \in seeds :
           cfg = [admin_id |-> 100, bot_token |-> "token", channel_name |-> <<"@", "a">>,
                  picture_path |-> SeedPicture, post_interval |-> seed[1],
                  last_post_time |-> seed[2]]
    /\ files \in {{}, {SeedPicture}}
    /\ now = Now0
    /\ jobs = <<>>
    /\ cmd = Idle
    /\ posts = <<>>
    /\ sent = 0
    /\ ev = NoEvent
    /\ postLog = "none"
    /\ sched = NotScheduled
    /\ updates = 0
    /\ written = None
    /\ codec = NoCall

Init == InitConfig(SeedConfigs)

Next ==
    \/ Main
    \/ RunScheduleJob
    \/ RunPostJob
    \/ \E i \in 1..Len(posts) : PostDelivered(i)
    \/ \E i \in 1..Len(posts) : PostSendRaises(i)
    \/ \E i \in 1..Len(posts) : PostRecord(i)
    \/ \E user \in Users : Start(user)
    \/ \E user \in Users : Status(user)
    \/ \E user \in Users, args \in ChannelArgs : SetChannel(user, args)
    \/ \E user \in Users, args \in IntervalArgs : SetInterval(user, args)
    \/ \E user \in Users, replyToPhoto \in BOOLEAN : SetPicture(user, replyToPhoto)
    \/ SetPictureGotFile
    \/ SetPictureSaved
    \/ SetPictureRaises
    \/ \E user \in Users : PostNow(user)
    \/ PostNowDelivered
    \/ PostNowRaises
    \/ PostNowRecord
    \/ Tick

Spec == Init /\ [][Next]_vars

\* a config.json whose post_interval respects the floor of set_interval
InitGood == InitConfig(GoodSeedConfigs)

SpecGood == InitGood /\ [][Next]_vars

\* a scheduled post in flight takes its next step
PostStep == \E i \in 1..Len(posts) : PostDelivered(i) \/ PostSendRaises(i) \/ PostRecord(i)

\* the job queue runs every due job, time passes, and a transmission ends
\* (delivered or raising, the request timeouts of the library bound it)
SpecLive ==
    /\ Init
    /\ [][Next]_vars
    /\ WF_vars(Main)
    /\ WF_vars(Tick)
    /\ WF_vars(RunScheduleJob)
    /\ WF_vars(RunPostJob)
    /\ WF_vars(PostStep)

(***************************************************************************)
(* Claims about the scheduler, the handlers and the poster                 *)
(***************************************************************************)
\* C1: with last_post_time a present (non-null) integer T and the interval I,
\* schedule_next_post computes delay 1 when T + I <= now and T + I - now
\* otherwise, and the delay is never zero or negative.
C1_PresentDelay ==
    (sched.called /\ sched.last_post_time # None) =>
        /\ sched.last_post_time + sched.interval_seconds <= sched.now
               => sched.delay = 1
        /\ sched.last_post_time + sched.interval_seconds > sched.now
               => sched.delay = sched.last_post_time + sched.interval_seconds - sched.now
        /\ sched.delay > 0

\* C2 as claimed: with last_post_time null the delay is exactly I, and it is
\* never 1 and never 0.
C2_NeverOneOrZero ==
    (sched.called /\ sched.last_post_time = None) =>
        /\ sched.delay = parse_time_interval(sched.post_interval)
        /\ sched.delay \notin {0, 1}

\* C2 amended: with last_post_time null the delay is exactly the number of
\* seconds post_interval parses to, which is 1 or 0 only when post_interval
\* itself parses to 1 or 0.
C2_FirstDelay ==
    (sched.called /\ sched.last_post_time = None) =>
        /\ sched.delay = parse_time_interval(sched.post_interval)
        /\ sched.interval_seconds >= 10 => sched.delay >= 10

C2_Witness ==
    /\ sched.called
    /\ sched.last_post_time = None
    /\ sched.post_interval = <<"1", "0", "s">>
    /\ sched.delay = 10
    /\ \E i \in 1..Len(jobs) :
           jobs[i] = [callback |-> "post_scheduled_picture", at |-> Now0 + 10]

\* the named handler ran for the admin in this step
AdminCommand(name) == ev' # ev /\ ev'.cmd = name /\ ev'.user = cfg.admin_id

\* C3: from a config.json whose post_interval parses to >= 10, the stored
\* post_interval always parses to >= 10; setinterval writes nothing when its
\* argument is missing, unparseable or below 10, and stores an argument that
\* parses to >= 10.
C3_IntervalFloor ==
    /\ [](parse_time_interval(cfg.post_interval) >= 10)
    /\ [][AdminCommand("setinterval") =>
             IF ev'.args # <<>> /\ parse_time_interval(ev'.args[1]) >= 10
             THEN cfg'.post_interval = ev'.args[1]
             ELSE cfg' = cfg]_vars

C3_Witness ==
    /\ ev.cmd = "setinterval"
    /\ ev.args = << <<"1", "0", "s">> >>
    /\ ev.reply = "Posting interval set"
    /\ cfg.post_interval = <<"1", "0", "s">>
    /\ sched.post_interval = <<"1", "1", "s", "!">>

\* a scheduled post attempt fails in this step: the picture is missing when
\* the job runs, or send_photo raises
ScheduledPostFails ==
    /\ postLog' \in PostFailures
    /\ \/ Len(posts') < Len(posts)
       \/ /\ jobs # <<>>
          /\ Head(jobs).callback = "post_scheduled_picture"
          /\ jobs' = Tail(jobs)
          /\ posts' = posts

\* a manual post attempt fails in this step
ManualPostFails ==
    /\ ev' # ev
    /\ ev'.cmd = "post"
    /\ ev'.reply \in {"Picture not found", "Error posting picture"}

\* C4: a post attempt that fails, manual or scheduled, on a missing picture
\* or a raising transmission, writes nothing to the stored record.
C4_FailedPostNoWrite ==
    [][(ScheduledPostFails \/ ManualPostFails) => cfg' = cfg]_vars

C4_Witness ==
    /\ postLog = "Error posting scheduled picture"
    /\ ev.cmd = "post"
    /\ ev.reply = "Error posting picture"

\* C5: a command from anyone but admin_id gets the denial reply and changes
\* nothing: not the stored record, the channel, the job queue or the files,
\* and no handler or post is left in flight.
C5_Unauthorized ==
    [][(ev' # ev /\ ev'.cmd # "none" /\ ev'.user # cfg.admin_id) =>
          /\ ev'.reply = Unauthorized
          /\ cfg' = cfg
          /\ sent' = sent
          /\ jobs' = jobs
          /\ posts' = posts
          /\ cmd' = cmd
          /\ files' = files]_vars

C5_Witness ==
    /\ ev.cmd = "post"
    /\ ev.user # cfg.admin_id
    /\ ev.reply = Unauthorized
    /\ cfg.picture_path \in files

\* C6: setchannel by the admin with no argument, or a first argument that
\* does not start with "@", leaves the stored record as it is; with a first
\* argument that starts with "@" it makes channel_name that argument.
C6_SetChannel ==
    [][AdminCommand("setchannel") =>
          IF ev'.args = <<>> \/ Head(Head(ev'.args)) # "@"
          THEN cfg' = cfg
          ELSE cfg'.channel_name = Head(ev'.args)]_vars

C6_Witness ==
    /\ ev.cmd = "setchannel"
    /\ ev.reply = "Channel set"
    /\ cfg.channel_name = <<"@", "b">>

\* C10 as claimed: the schedule_next_post that follows a failed scheduled post
\* never takes the 1-second catch-up delay.
C10_NoCatchUpAfterFailure ==
    (sched.called /\ sched.prev_post \in PostFailures) =>
        ~(/\ Truthy(sched.last_post_time)
          /\ sched.last_post_time + sched.interval_seconds <= sched.now)

\* C10 amended: the schedule_next_post that follows a failed scheduled post
\* takes the delay the stored record gives: the interval when last_post_time
\* is null (or 0), 1 second when last_post_time + interval has passed,
\* and the time left to it otherwise.
C10_RetryDelay ==
    (sched.called /\ sched.prev_post \in PostFailures) =>
        /\ sched.last_post_time \in {None, 0} => sched.delay = sched.interval_seconds
        /\ (/\ sched.last_post_time \notin {None, 0}
            /\ sched.last_post_time + sched.interval_seconds <= sched.now)
               => sched.delay = 1
        /\ (/\ sched.last_post_time \notin {None, 0}
            /\ sched.last_post_time + sched.interval_seconds > sched.now)
               => sched.delay = sched.last_post_time + sched.interval_seconds - sched.now

C10_Witness ==
    /\ sched.called
    /\ sched.prev_post \in PostFailures
    /\ sched.last_post_time = Now0 - 12
    /\ sched.interval_seconds = 10
    /\ sched.delay = 1

(***************************************************************************)
(* Codec harness: calls of the two pure functions on bounded inputs        *)
(***************************************************************************)
MaxDays == 2
MaxStrLen == 4

HourSamples == {0, 1, 2, 23}
MinuteSamples == {0, 1, 3, 30, 59}
SecondSamples == {0, 1, 4, 9, 10, 30, 59}

Alphabet == {"0", "1", "2", "d", "h", "m", "s", "x"}

NamedStrings ==
    { <<"1", "d", "2", "h", "3", "m", "4", "s">>,
      <<"g", "a", "r", "b", "a", "g", "e">>,
      <<"0", "1", "d">>,
      <<"1", "d", "1", "2", "h", "3", "0", "m", "4", "5", "s">>,
      <<"1", "0", "s", " ", "p", "l", "e", "a", "s", "e">>,
      <<"5", "m", "3", "h">> }

InputStrings ==
    NamedStrings \cup UNION {[1..k -> Alphabet] : k \in 0..MaxStrLen}

\* format_time_interval(n), n given by its d/h/m/s decomposition (each
\* harness run makes one call and follows it up)
CodecFormat ==
    /\ codec.op = "none"
    /\ \E d \in 0..MaxDays, h \in HourSamples, m \in MinuteSamples, s \in SecondSamples :
        LET n == d * 86400 + h * 3600 + m * 60 + s
        IN  codec' = [op |-> "format", in |-> <<d, h, m, s>>, n |-> n,
                      s |-> format_time_interval(n), r |-> 0, s2 |-> <<>>]

\* parse_time_interval of the string format_time_interval just produced
CodecParseBack ==
    /\ codec.op = "format"
    /\ codec' = [codec EXCEPT !.op = "parse_back", !.r = parse_time_interval(codec.s)]

\* format_time_interval of what parse_time_interval just returned
CodecFormatBack ==
    /\ codec.op = "parse_back"
    /\ codec.r # ValueError
    /\ codec' = [codec EXCEPT !.op = "format_back", !.s2 = format_time_interval(codec.r)]

\* parse_time_interval of an arbitrary string
CodecParse ==
    /\ codec.op = "none"
    /\ \E text \in InputStrings :
        codec' = [op |-> "parse", in |-> <<0, 0, 0, 0>>, n |-> 0, s |-> text,
                  r |-> parse_time_interval(text), s2 |-> <<>>]

(***************************************************************************)
(* Claims about the codec                                                  *)
(***************************************************************************)
\* C7: parse_time_interval(format_time_interval(n)) = n for every n >= 0, and
\* formatting the parsed value of a formatted string gives that string back.
C7_RoundTrip ==
    /\ codec.op \in {"parse_back", "format_back"} => codec.r = codec.n
    /\ codec.op = "format_back" => codec.s2 = codec.s

C7_Witness ==
    /\ codec.op = "format_back"
    /\ codec.n = 90061
    /\ codec.s2 = <<"1", "d", "1", "h", "1", "m", "1", "s">>

\* the text of one component: nothing when the component is zero
Component(value, unit) == IF value = 0 THEN <<>> ELSE str(value) \o <<unit>>

\* C8: format_time_interval(n) is the non-zero components of n's d/h/m/s
\* decomposition in that order, "0s" for n = 0, and never empty.
C8_FormatShape ==
    codec.op = "format" =>
        LET d == codec.in[1]
            h == codec.in[2]
            m == codec.in[3]
            s == codec.in[4]
        IN  /\ codec.s # <<>>
            /\ codec.n = 0 => codec.s = <<"0", "s">>
            /\ codec.n > 0 =>
                   codec.s = Component(d, "d") \o Component(h, "h")
                                 \o Component(m, "m") \o Component(s, "s")
            /\ codec.n = 90 => codec.s = <<"1", "m", "3", "0", "s">>
            /\ codec.n = 90061 => codec.s = <<"1", "d", "1", "h", "1", "m", "1", "s">>

C8_Witness ==
    /\ codec.op = "format"
    /\ codec.n = 0
    /\ codec.s = <<"0", "s">>

\* a group of l digits and the unit letter at position p (l = 0: no group)
GroupAt(text, p, l, unit) ==
    \/ l = 0
    \/ /\ p + l <= Len(text)
       /\ \A i \in p..(p + l - 1) : IsDigit(text[i])
       /\ text[p + l] = unit

After(p, l) == IF l = 0 THEN p ELSE p + l + 1

\* the ways to read a prefix of text as groups in d, h, m, s order: the
\* number of digits of each group
Readings(text) ==
    LET L == 0..Len(text)
    IN  UNION { UNION { UNION { { <<ld, lh, lm, ls>> :
            ls \in {x \in L : GroupAt(text, After(After(After(1, ld), lh), lm), x, "s")} } :
            lm \in {x \in L : GroupAt(text, After(After(1, ld), lh), x, "m")} } :
            lh \in {x \in L : GroupAt(text, After(1, ld), x, "h")} } :
            ld \in {x \in L : GroupAt(text, 1, x, "d")} }

Covered(reading) == After(After(After(After(1, reading[1]), reading[2]), reading[3]), reading[4]) - 1

NumberAt(text, p, l) == IF l = 0 THEN 0 ELSE int(SubSeq(text, p, p + l - 1))

ReadingSeconds(text, reading) ==
    LET p2 == After(1, reading[1])
        p3 == After(p2, reading[2])
        p4 == After(p3, reading[3])
    IN  NumberAt(text, 1, reading[1]) * 86400 + NumberAt(text, p2, reading[2]) * 3600
            + NumberAt(text, p3, reading[3]) * 60 + NumberAt(text, p4, reading[4])

\* C9: parse_time_interval gives 0 for "", ValueError for a non-empty string
\* that starts with no group, and otherwise the seconds of the groups at the
\* start of the string, whatever follows them.
C9_ParseResult ==
    codec.op = "parse" =>
        LET text == codec.s
            readings == {x \in Readings(text) : Covered(x) > 0}
        IN  /\ text = <<>> => codec.r = 0
            /\ (text # <<>> /\ readings = {}) => codec.r = ValueError
            /\ readings # {} =>
                   LET longest == CHOOSE x \in readings :
                                      \A y \in readings : Covered(y) <= Covered(x)
                   IN  codec.r = ReadingSeconds(text, longest)
            /\ text = <<"1", "d", "2", "h", "3", "m", "4", "s">> => codec.r = 93784
            /\ text = <<"g", "a", "r", "b", "a", "g", "e">> => codec.r = ValueError

C9_Witness ==
    /\ codec.op = "parse"
    /\ codec.s = <<"1", "0", "s", " ", "p", "l", "e", "a", "s", "e">>
    /\ codec.r = 10

NextCodec ==
    \/ CodecFormat /\ UNCHANGED botVars
    \/ CodecParseBack /\ UNCHANGED botVars
    \/ CodecFormatBack /\ UNCHANGED botVars
    \/ CodecParse /\ UNCHANGED botVars

InitCodec ==
    /\ codec = NoCall
    /\ cfg = [admin_id |-> 100, bot_token |-> "token", channel_name |-> <<"@", "a">>,
              picture_path |-> SeedPicture, post_interval |-> <<"1", "0", "s">>,
              last_post_time |-> None]
    /\ files = {SeedPicture}
    /\ now = Now0
    /\ jobs = <<>>
    /\ cmd = Idle
    /\ posts = <<>>
    /\ sent = 0
    /\ ev = NoEvent
    /\ postLog = "none"
    /\ sched = NotScheduled
    /\ updates = 0
    /\ written = None

SpecCodec == InitCodec /\ [][NextCodec]_vars

(***************************************************************************)
(* Claims about the timer chain and the shared record                      *)
(***************************************************************************)
\* the scheduling computation s took the catch-up branch: last_post_time is
\* set and last_post_time + interval has already passed
CatchUp(s) ==
    /\ s.called
    /\ Truthy(s.last_post_time)
    /\ s.last_post_time + s.interval_seconds <= s.now

\* C11: a catch-up issues a single post: when a scheduling computation that
\* took the 1-second catch-up delay is followed by another one that takes it
\* for the same last_post_time, the post of the first was never issued (its
\* attempt failed and no scheduled post is in flight), also when the
\* reschedule timer fires while the post is still in flight.
C11_SingleCatchUpPost ==
    [][(/\ sched' # sched
        /\ CatchUp(sched)
        /\ CatchUp(sched')
        /\ sched'.last_post_time = sched.last_post_time)
           => (posts = <<>> /\ postLog \in PostFailures)]_vars

\* the positions in the job queue of the pending jobs with this callback
Pending(callback) == {i \in 1..Len(jobs) : jobs[i].callback = callback}

\* C12: no duplicate cycles: at most one post job and at most one reschedule
\* job are pending in every reachable state, and schedule_next_post runs only
\* once from main (nothing scheduled yet, empty queue) and otherwise from the
\* due reschedule job that the previous schedule_next_post armed.
C12_OneCycle ==
    /\ [](/\ Cardinality(Pending("post_scheduled_picture")) <= 1
          /\ Cardinality(Pending("schedule_next_post")) <= 1)
    /\ [][sched' # sched =>
             \/ ~sched.called /\ jobs = <<>>
             \/ /\ sched.called
                /\ jobs # <<>>
                /\ Head(jobs) = [callback |-> "schedule_next_post",
                                 at |-> sched.now + sched.delay + 1]
                /\ Head(jobs).at <= now]_vars

C12_Witness ==
    /\ sched.called
    /\ sched.now > Now0
    /\ updates = MaxCommands
    /\ posts # <<>>
    /\ Cardinality(Pending("post_scheduled_picture")) = 1
    /\ Cardinality(Pending("schedule_next_post")) = 1

\* the job with this callback and run time is pending
ArmedIn(queue, callback, at) ==
    \E i \in 1..Len(queue) : queue[i] = [callback |-> callback, at |-> at]

Armed(callback, at) == ArmedIn(jobs, callback, at)

\* C13: the timer chain is perpetual: from main's call on a reschedule job is
\* pending in every state; every schedule_next_post adds one post job and one
\* reschedule job; and whatever the commands and post outcomes, every job
\* whose run time the clock reaches is run: the run ends up at the horizon
\* with no job left due and the reschedule job of the latest cycle pending.
C13_PerpetualChain ==
    /\ [](sched.called => Pending("schedule_next_post") # {})
    /\ [][sched' # sched =>
             /\ ArmedIn(jobs', "post_scheduled_picture", now + sched'.delay)
             /\ ArmedIn(jobs', "schedule_next_post", now + sched'.delay + 1)
             /\ Cardinality(Pending("post_scheduled_picture")') =
                    Cardinality(Pending("post_scheduled_picture")) + 1
             /\ Cardinality(Pending("schedule_next_post")') = 1]_vars
    /\ <>(/\ sched.called
           /\ now = MaxTime
           /\ Armed("schedule_next_post", sched.now + sched.delay + 1)
           /\ \A i \in 1..Len(jobs) : jobs[i].at > now)

C13_Witness ==
    /\ sched.called
    /\ sched.now > Now0
    /\ sched.prev_post \in PostFailures
    /\ updates = MaxCommands
    /\ Pending("schedule_next_post") # {}

\* C14: in each cycle the post job is armed for delay and the reschedule job
\* for delay + 1 from the same instant; a reschedule job is pending one second
\* behind every pending post job; and the scheduling computation the
\* reschedule job runs happens strictly after the run time of the cycle's post
\* job, when that job has left the queue (its post may still be in flight).
C14_RescheduleAfterPostJob ==
    /\ [](\A i \in Pending("post_scheduled_picture") :
              Armed("schedule_next_post", jobs[i].at + 1))
    /\ [][sched' # sched =>
             /\ ArmedIn(jobs', "post_scheduled_picture", sched'.now + sched'.delay)
             /\ ArmedIn(jobs', "schedule_next_post", sched'.now + sched'.delay + 1)
             /\ sched.called =>
                    /\ now > sched.now + sched.delay
                    /\ ~Armed("post_scheduled_picture", sched.now + sched.delay)]_vars

C14_Witness ==
    /\ sched.called
    /\ sched.now = now
    /\ sched.now > Now0
    /\ Armed("post_scheduled_picture", now + sched.delay)
    /\ Armed("schedule_next_post", now + sched.delay + 1)
    /\ posts # <<>>
    /\ posts[1].pc = "send_photo"

\* C15: post_scheduled_picture, post_now and set_picture each save the whole
\* record they loaded before their await with one field changed, so the last
\* save wins for every field: whatever was stored in between is overwritten.
C15_LastSaveWins ==
    [][/\ \A i \in 1..Len(posts) :
              (posts[i].pc = "delivered" /\ posts' = Remove(posts, i)) =>
                  cfg' = [posts[i].config EXCEPT !.last_post_time = now]
       /\ (cmd.name = "post" /\ cmd.pc = "delivered" /\ cmd' = Idle) =>
              cfg' = [cmd.config EXCEPT !.last_post_time = now]
       /\ (cmd.name = "setpicture" /\ cmd' = Idle /\ ev'.reply = "Picture set") =>
              cfg' = [cmd.config EXCEPT !.picture_path = cmd.file_path]]_vars

\* a setinterval was accepted and saved while a scheduled post was in flight,
\* and the save of that post has put the old post_interval back
C15_Witness ==
    /\ ev.cmd = "setinterval"
    /\ ev.reply = "Posting interval set"
    /\ ev.args = << <<"1", "0", "s">> >>
    /\ postLog = "Scheduled picture posted"
    /\ written = now
    /\ cfg.post_interval = <<"1", "s">>

\* a save of set_picture has put back a last_post_time older than the one a
\* post had stored
C15_StalePictureSave ==
    /\ ev.cmd = "setpicture"
    /\ ev.reply = "Picture set"
    /\ written = now
    /\ cfg.last_post_time # written

\* a post, scheduled or manual, writes last_post_time in this step
PostWrites ==
    \/ \E i \in 1..Len(posts) : posts[i].pc = "delivered" /\ posts' = Remove(posts, i)
    \/ cmd.name = "post" /\ cmd.pc = "delivered" /\ cmd' = Idle

\* C16: the clock never goes back, and the last_post_time that a successful
\* post writes is never less than the one the successful post before it
\* wrote, whatever the interleaving of manual and scheduled posts.
C16_MonotoneWrites ==
    /\ [][now' >= now]_vars
    /\ [][PostWrites =>
             /\ cfg'.last_post_time = written'
             /\ written # None => written' >= written]_vars
    /\ [][written' # written => PostWrites]_vars

C16_Witness ==
    /\ sent = 2
    /\ posts = <<>>
    /\ cmd = Idle
    /\ ev.cmd = "post"
    /\ ev.reply = "Picture posted successfully!"
    /\ postLog = "Scheduled picture posted"
    /\ written = now
    /\ cfg.last_post_time = written

\* a command handler takes a step: it is dispatched, resumes or ends
CommandStep == cmd' # cmd \/ (ev' # ev /\ ev'.cmd # "none")

\* C17: no command cancels or re-arms a job: every step of a handler leaves
\* the job queue as it is, so every pending job keeps the run time that the
\* last schedule_next_post computed from the interval and last_post_time it
\* loaded, and the post job runs at that time.
C17_TimersUntouched ==
    /\ [][CommandStep => (jobs' = jobs /\ sched' = sched)]_vars
    /\ [](\A i \in 1..Len(jobs) :
              jobs[i].at = sched.now
                  + next_delay([last_post_time |-> sched.last_post_time],
                               sched.interval_seconds, sched.now)
                  + (IF jobs[i].callback = "schedule_next_post" THEN 1 ELSE 0))
    /\ [][(/\ jobs # <<>>
           /\ Head(jobs).callback = "post_scheduled_picture"
           /\ jobs' = Tail(jobs))
              => now = sched.now + sched.delay]_vars

\* an accepted setinterval has changed the stored interval and the post job
\* armed from the old one is still pending for the old time
C17_Witness ==
    /\ ev.cmd = "setinterval"
    /\ ev.reply = "Posting interval set"
    /\ cfg.post_interval = <<"1", "0", "s">>
    /\ sched.post_interval = <<"1", "s">>
    /\ Armed("post_scheduled_picture", sched.now + 1)
    /\ Armed("schedule_next_post", sched.now + 2)

\* the attempts whose transmission has returned and whose write is still to come
Delivered == {i \in 1..Len(posts) : posts[i].pc = "delivered"}

\* C18: in both post paths last_post_time is written only by an attempt
\* whose own transmission has succeeded, as the step that ends the attempt,
\* and the transmission itself leaves the stored record as it is; an attempt
\* counts as delivered only when the channel has received its photo.
C18_WriteAfterTransmission ==
    /\ [][(\/ written' # written
           \/ /\ cfg'.last_post_time # cfg.last_post_time
              /\ ~(cmd.name = "setpicture" /\ cmd' = Idle))
              => /\ PostWrites
                 /\ cfg'.last_post_time = now]_vars
    /\ [][sent' # sent => (cfg' = cfg /\ written' = written)]_vars
    /\ [](Cardinality(Delivered) + (IF cmd.pc = "delivered" THEN 1 ELSE 0) <= sent)
    /\ [](written # None => sent >= 1)

\* the first scheduled attempt stays between its transmission and its write,
\* last_post_time stayed at its old value, and the following cycle has posted
\* again and written
C18_Witness ==
    /\ updates = 0
    /\ sent = 2
    /\ Len(posts) = 1
    /\ posts[1].pc = "delivered"
    /\ posts[1].config.last_post_time = Now0 - 12
    /\ sched.last_post_time = Now0 - 12
    /\ sched.now > Now0
    /\ postLog = "Scheduled picture posted"
    /\ written = now
    /\ cfg.last_post_time = now

\* C19: set_channel and set_interval load and save without an await in
\* between: an accepted setchannel changes channel_name only and an accepted
\* setinterval post_interval only, relative to the record stored just before
\* the save, under every interleaving; admin_id and bot_token never change.
C19_AtomicSetters ==
    /\ [][(AdminCommand("setchannel") /\ ev'.reply = "Channel set") =>
             cfg' = [cfg EXCEPT !.channel_name = ev'.args[1]]]_vars
    /\ [][(AdminCommand("setinterval") /\ ev'.reply = "Posting interval set") =>
             cfg' = [cfg EXCEPT !.post_interval = ev'.args[1]]]_vars
    /\ [][cfg'.admin_id = cfg.admin_id /\ cfg'.bot_token = cfg.bot_token]_vars

\* a setchannel accepted after a post has written last_post_time and while a
\* scheduled post is in flight
C19_Witness ==
    /\ ev.cmd = "setchannel"
    /\ ev.reply = "Channel set"
    /\ cfg.channel_name = <<"@", "b">>
    /\ written # None
    /\ cfg.last_post_time = written
    /\ posts # <<>>

====
